---------------------------- MODULE Spec2Model ----------------------------
(***************************************************************************)
(* clockrobustus: the wire codecs (alarm.rs, clock.rs, message.rs), the    *)
(* alarm evaluator (Alarm::must_ring), the daemon's publisher loop         *)
(* (clockrobustusd/src/main.rs), the library's subscriber loop (queue.rs), *)
(* the alarm store (Alarm::save, Alarm::all, Alarm::remove), the           *)
(* weekday-name form of ActiveDays, the daemon with a listener connected   *)
(* to it, the desktop app's store commands (alarms.rs), and two store      *)
(* operations racing over separate connections, as state machines.         *)
(*                                                                         *)
(* Time is counted in quanta of 1/QuantaPerSec second since Monday         *)
(* 00:00:00 local time; a byte is a number in 0..255; an f32 is its IEEE   *)
(* 754 bit pattern; Option<i64> is <<>> (None) or <<k>> (Some(k)); a       *)
(* Result is a record [tag, val] with tag "Ok" or "Err", and a Rust panic  *)
(* (an index or a slice out of bounds) is the outcome with tag "Panic".    *)
(***************************************************************************)
EXTENDS Integers, Sequences, FiniteSets, TLC

VARIABLES
    \* Alarm::must_ring called on one alarm at one instant
    evAlarm, evNow, evResult,
    \* the envelope codec: a Message, its bytes, the decoding of bytes
    cmsg, wire, decoded,
    \* the daemon: main's loop position, the ctrl-c flag, the clock, the
    \* configured tick duration, the alarms table, tick's local state (the
    \* fetched alarms and the for loop's position), the frames the current
    \* tick has put on the PUB socket, the number of ticks started, the time
    \* spent inside ticks, the errors main has printed, where the daemon was
    \* when ctrl-c arrived, and main's return value
    pc, running, now, tick_duration, table, alarms, idx, sent,
    tickNo, drift, errlog, ctrlcAt, exitCode,
    \* a log of the daemon's calls of must_ring (the alarm, the instant
    \* Local::now() gave, whether the alarm's frame went out), kept in the
    \* runs that switch it on
    evals,
    \* queue::listen: loop position, its flag, the frames received, the
    \* callback invocations, and what listen returned
    lpc, running_flag, received, callbacks, listened,
    \* the alarm store: the sqlite database behind a Connection, the Alarm
    \* value the caller holds, the last call made on it, the calls so far
    \* and the ids of the rows removed so far
    conn, held, call, nCalls, removed,
    \* a conversion applied to a value and its inverse applied to the
    \* outcome: which one, the value, the outcome, the outcome's conversion
    cvKind, cvIn, cvMid, cvOut,
    \* the frames on their way from the daemon's PUB socket to the SUB
    \* socket of a connected listener
    air,
    \* the desktop app's store commands, each running on a thread: the
    \* static CONN, the connections opened so far, the RwLock of each
    \* connection, and per thread its position in the command, the command,
    \* and the connection its clone of the Arc points to
    CONN, opened, lock, tpc, top, tconn,
    \* two processes, the daemon and the app, each with a connection of its
    \* own to the one database file and each in one store operation: its
    \* position in the operation, the operation, and what it returned
    spc, sop, sres

evalVars  == <<evAlarm, evNow, evResult>>
codecVars == <<cmsg, wire, decoded>>
pubVars   == <<pc, running, now, tick_duration, table, alarms, idx, sent,
               tickNo, drift, errlog, ctrlcAt, exitCode, evals>>
lisVars   == <<lpc, running_flag, received, callbacks, listened>>
storeVars == <<conn, held, call, nCalls, removed>>
convVars  == <<cvKind, cvIn, cvMid, cvOut>>
netVars   == <<air>>
appVars   == <<CONN, opened, lock, tpc, top, tconn>>
schemaVars == <<spc, sop, sres>>
vars      == <<evalVars, codecVars, pubVars, lisVars, storeVars, convVars,
               netVars, appVars, schemaVars>>

---------------------------------------------------------------------------
(* Bounds of the model. *)

\* time resolution: quanta per second
QuantaPerSec == 2
\* ticks the daemon may start in one run
MaxTicks == 3
\* quanta that may pass inside ticks (processing time) in one run
MaxDrift == 2
\* frames a listener may receive in one run
MaxFrames == 3

---------------------------------------------------------------------------
(* Results and options. *)

None    == <<>>
Some(k) == <<k>>

Ok(v)  == [tag |-> "Ok", val |-> v]
Err(e) == [tag |-> "Err", val |-> e]
\* a panic unwinds the calling thread: no value is returned
Panic  == [tag |-> "Panic", val |-> "index out of bounds"]
\* no call made yet
NoResult == [tag |-> "None", val |-> "none"]

IsOk(r)    == r.tag = "Ok"
IsErr(r)   == r.tag = "Err"
IsPanic(r) == r.tag = "Panic"

U8(n) == n % 256

---------------------------------------------------------------------------
(* Local time: chrono's Local::now() read as weekday and time of day. *)

QuantaPerDay  == 86400 * QuantaPerSec
QuantaPerWeek == 7 * QuantaPerDay

\* Weekday::Mon = 0 ... Weekday::Sun = 6
weekday(t) == (t \div QuantaPerDay) % 7
\* NaiveTime of the instant, in quanta since midnight
time(t)    == t % QuantaPerDay
hour(t)    == (time(t) \div QuantaPerSec) \div 3600
minute(t)  == ((time(t) \div QuantaPerSec) \div 60) % 60
second(t)  == (time(t) \div QuantaPerSec) % 60

\* the instant of weekday wd at h:m:s sharp
Instant(wd, h, m, s) == (wd * 86400 + h * 3600 + m * 60 + s) * QuantaPerSec

---------------------------------------------------------------------------
(* alarm.rs: ActiveDays and Alarm. *)

Alarm(id, d, h, m, s) ==
    [id |-> id, active_days |-> d, hour |-> h, minute |-> m, seconds |-> s]

\* ActiveDays::as_vec: walks the first seven entries of src_vec with a mask
\* that starts at 0x01 and is shifted left once per entry
RECURSIVE as_vec_from(_, _, _, _)
as_vec_from(days, src_vec, i, mask) ==
    IF i > Len(src_vec) \/ i > 7 THEN <<>>
    ELSE (IF (days \div mask) % 2 = 1 THEN <<src_vec[i]>> ELSE <<>>)
         \o as_vec_from(days, src_vec, i + 1, mask * 2)

\* as_vec with its mask off by one bit: starting at 0x02
as_vec_from_0x02(days, src_vec) == as_vec_from(days, src_vec, 1, 2)

as_vec(days, src_vec) == as_vec_from(days, src_vec, 1, 1)

\* ActiveDays::to_weekdays: Mon..Sun as 0..6
to_weekdays(days) == as_vec(days, <<0, 1, 2, 3, 4, 5, 6>>)

\* ActiveDays::to_day_strings_vec, used by Serialize
to_day_strings_vec(days) ==
    as_vec(days, <<"Monday", "Tuesday", "Wednesday", "Thursday", "Friday",
                   "Saturday", "Sunday">>)

\* a | b on u8
RECURSIVE bit_or(_, _)
bit_or(a, b) ==
    IF a = 0 THEN b
    ELSE IF b = 0 THEN a
    ELSE (IF a % 2 = 1 \/ b % 2 = 1 THEN 1 ELSE 0) + 2 * bit_or(a \div 2, b \div 2)

\* a match with every bit one place too high: Monday 0x02 ... Sunday 0x80
day_bit_shifted(e) ==
    CASE e = "Monday" -> 2 [] e = "Tuesday" -> 4 [] e = "Wednesday" -> 8
      [] e = "Thursday" -> 16 [] e = "Friday" -> 32 [] e = "Saturday" -> 64
      [] e = "Sunday" -> 128 [] OTHER -> 0

\* the match of visit_seq: the bit of a day's name, 0x00 for anything else
day_bit(e) ==
    CASE e = "Monday" -> 1 [] e = "Tuesday" -> 2 [] e = "Wednesday" -> 4
      [] e = "Thursday" -> 8 [] e = "Friday" -> 16 [] e = "Saturday" -> 32
      [] e = "Sunday" -> 64 [] OTHER -> 0

\* ActiveDaysVisitor::visit_seq on the elements seq still to come: the loop
\* breaks once iteration > 7 or when next_element yields None
RECURSIVE visit_seq_from(_, _, _)
visit_seq_from(seq, iteration, value) ==
    IF iteration > 7 THEN value
    ELSE IF seq = <<>> THEN value
    ELSE visit_seq_from(Tail(seq), iteration + 1, bit_or(value, day_bit(Head(seq))))

visit_seq(seq) == visit_seq_from(seq, 0, 0)

\* impl Deserialize for ActiveDays: deserializer.deserialize_seq(visitor)?
\* then Ok(ActiveDays(value)).  The deserializer owns the sequence: when
\* the visitor returns with elements left unread it may hand the value on
\* or report the elements left over as an error
ActiveDays_deserialize(seq) ==
    {Ok(visit_seq(seq))} \cup
    (IF Len(seq) > 8 THEN {Err("trailing characters")} ELSE {})

contains(seq, x) == \E i \in 1..Len(seq) : seq[i] = x

\* NaiveTime::from_hms_opt: None unless hour < 24, minute < 60, second < 60
from_hms_opt(h, m, s) ==
    IF h < 24 /\ m < 60 /\ s < 60
    THEN Some((h * 3600 + m * 60 + s) * QuantaPerSec)
    ELSE None

\* the comparison of line 209 with an off-by-one: the window closed at 1 s
must_ring_inclusive(alarm, t) ==
    LET alarm_naive == from_hms_opt(alarm.hour, alarm.minute, alarm.seconds)
    IN  IF alarm_naive = None
        THEN Err("Could not create naive time for alarm")
        ELSE IF contains(to_weekdays(alarm.active_days), weekday(t))
             THEN LET alarm_delta == time(t) - alarm_naive[1]
                  IN  Ok(time(t) >= alarm_naive[1] /\ alarm_delta <= QuantaPerSec)
             ELSE Ok(FALSE)

\* a must_ring that catches up: line 209 without its upper bound, so that
\* an alarm rings at any sample of its day that is not before its time
must_ring_catch_up(alarm, t) ==
    LET alarm_naive == from_hms_opt(alarm.hour, alarm.minute, alarm.seconds)
    IN  IF alarm_naive = None
        THEN Err("Could not create naive time for alarm")
        ELSE IF contains(to_weekdays(alarm.active_days), weekday(t))
             THEN Ok(time(t) >= alarm_naive[1])
             ELSE Ok(FALSE)

\* Alarm::must_ring, with the value of Local::now() as t
must_ring(alarm, t) ==
    LET alarm_naive == from_hms_opt(alarm.hour, alarm.minute, alarm.seconds)
    IN  IF alarm_naive = None
        THEN Err("Could not create naive time for alarm")
        ELSE IF contains(to_weekdays(alarm.active_days), weekday(t))
             THEN LET alarm_delta == time(t) - alarm_naive[1]
                  IN  Ok(time(t) >= alarm_naive[1] /\ alarm_delta < QuantaPerSec)
             ELSE Ok(FALSE)

\* Alarm::as_bytes: the 0xff marker, then the four fields
Alarm_as_bytes(alarm) ==
    <<255, alarm.active_days, alarm.hour, alarm.minute, alarm.seconds>>

\* a conversion that takes the vector for the four fields alone, without
\* the 0xff in front
Alarm_from_payload(value) ==
    IF Len(value) < 4 THEN Panic
    ELSE Ok(Alarm(None, value[1], value[2], value[3], value[4]))

\* impl From<Vec<u8>> for Alarm: reads value[1]..value[4] (0-based), and
\* indexing past the end panics
Alarm_from(value) ==
    IF Len(value) < 5 THEN Panic
    ELSE Ok(Alarm(None, value[2], value[3], value[4], value[5]))

---------------------------------------------------------------------------
(* clock.rs: ClockMessage.  The angles are f32 values, kept as their IEEE  *)
(* 754 single precision bit patterns (all below 2^31: the sign bit clear). *)

\* f32::to_be_bytes and f32::from_be_bytes
to_be_bytes(w) ==
    <<w \div 16777216, (w \div 65536) % 256, (w \div 256) % 256, w % 256>>
from_be_bytes(b) == b[1] * 16777216 + b[2] * 65536 + b[3] * 256 + b[4]

\* f32's PartialEq: a NaN equals nothing, itself included
is_nan(w)   == (w \div 8388608) % 256 = 255 /\ w % 8388608 # 0
f32_eq(a, b) == ~is_nan(a) /\ ~is_nan(b) /\ a = b

\* ClockMessage::h24_to_radians(hours, minutes), evaluated in f32 arithmetic
\* (PI = 0x40490FDB, each operation rounded to nearest even), tabulated on
\* (hours % 12, minutes) for the instants the model visits
h24_table ==
    <<11, 59>> :> 1090194517 @@
    <<0, 0>> :> 1070141403 @@
    <<0, 1>> :> 1070214607

h24_to_radians(hours, minutes) == h24_table[<<hours % 12, minutes>>]

\* ClockMessage::ms60_to_radians(value, arc), evaluated likewise, tabulated
\* on (value % 60, arc.unwrap_or(0))
ms60_table ==
    <<59, 59>> :> 1090209158 @@ <<59, 0>> :> 1089993205 @@ <<0, 0>> :> 1070141403 @@
    <<0, 1>> :> 1070156044 @@ <<0, 2>> :> 1070170685 @@ <<0, 3>> :> 1070185326 @@
    <<0, 4>> :> 1070199967 @@ <<0, 5>> :> 1070214607 @@ <<0, 6>> :> 1070229248 @@
    <<0, 7>> :> 1070243889 @@ <<0, 8>> :> 1070258530 @@ <<0, 9>> :> 1070273171 @@
    <<0, 10>> :> 1070287812 @@ <<0, 11>> :> 1070302453 @@ <<0, 12>> :> 1070317094 @@
    <<1, 0>> :> 1071019856 @@ <<2, 0>> :> 1071898309 @@ <<3, 0>> :> 1072776762 @@
    <<4, 0>> :> 1073655215 @@ <<5, 0>> :> 1074137746 @@ <<6, 0>> :> 1074576972 @@
    <<7, 0>> :> 1075016199 @@ <<8, 0>> :> 1075455426 @@ <<9, 0>> :> 1075894652 @@
    <<10, 0>> :> 1076333878 @@ <<11, 0>> :> 1076773105 @@ <<12, 0>> :> 1077212332

ms60_to_radians(value, arc) ==
    ms60_table[<<value % 60, IF arc = None THEN 0 ELSE arc[1]>>]

ClockMessage(h, m, s, ha, ma, sa) ==
    [hours |-> h, minutes |-> m, seconds |-> s,
     hours_angle |-> ha, minutes_angle |-> ma, seconds_angle |-> sa]

\* impl Default for ClockMessage, with the value of Local::now() as t
ClockMessage_default(t) ==
    LET hours   == hour(t)
        minutes == minute(t)
        seconds == second(t)
    IN  ClockMessage(hours, minutes, seconds,
                     h24_to_radians(hours, minutes),
                     ms60_to_radians(minutes, Some(seconds)),
                     ms60_to_radians(seconds, None))

\* ClockMessage::as_bytes: three bytes, then the three angles big-endian
ClockMessage_as_bytes(c) ==
    <<c.hours, c.minutes, c.seconds>>
    \o to_be_bytes(c.hours_angle)
    \o to_be_bytes(c.minutes_angle)
    \o to_be_bytes(c.seconds_angle)

\* value[a..b] of Rust (0-based, b exclusive) on a vector long enough
slice(value, a, b) == SubSeq(value, a + 1, b)

\* a conversion that works the angles out again from hours, minutes and
\* seconds instead of reading them
ClockMessage_try_from_recomputed(value) ==
    IF Len(value) < 15 THEN Panic
    ELSE Ok(ClockMessage(value[1], value[2], value[3],
                         h24_to_radians(value[1], value[2]),
                         ms60_to_radians(value[2], Some(value[3])),
                         ms60_to_radians(value[3], None)))

\* impl TryFrom<Vec<u8>> for ClockMessage: value[0], value[1], value[2] and
\* the slices value[3..7], value[7..11], value[11..15] panic when the vector
\* is too short; a slice of four bytes always converts to [u8; 4], so the
\* TryFromSliceError of try_into()? never arises
ClockMessage_try_from(value) ==
    IF Len(value) < 15 THEN Panic
    ELSE Ok(ClockMessage(value[1], value[2], value[3],
                         from_be_bytes(slice(value, 3, 7)),
                         from_be_bytes(slice(value, 7, 11)),
                         from_be_bytes(slice(value, 11, 15))))

\* derive(PartialEq) on ClockMessage and on Alarm
ClockMessage_eq(a, b) ==
    /\ a.hours = b.hours /\ a.minutes = b.minutes /\ a.seconds = b.seconds
    /\ f32_eq(a.hours_angle, b.hours_angle)
    /\ f32_eq(a.minutes_angle, b.minutes_angle)
    /\ f32_eq(a.seconds_angle, b.seconds_angle)

Alarm_eq(a, b) ==
    /\ a.id = b.id /\ a.active_days = b.active_days
    /\ a.hour = b.hour /\ a.minute = b.minute /\ a.seconds = b.seconds

---------------------------------------------------------------------------
(* message.rs: the envelope. *)

ALARM_MESSAGE_HEADER == 255
CLOCK_MESSAGE_HEADER == 254

\* enum Message { Clock(ClockMessage), Alarm(Alarm) }
Message_Alarm(a) == [variant |-> "Alarm", body |-> a]
Message_Clock(c) == [variant |-> "Clock", body |-> c]
NoMessage        == [variant |-> "None", body |-> <<>>]

\* derive(PartialEq) on Message
Message_eq(x, y) ==
    /\ x.variant = y.variant
    /\ IF x.variant = "Alarm" THEN Alarm_eq(x.body, y.body)
       ELSE ClockMessage_eq(x.body, y.body)

\* as_bytes with the Clock header on both variants and the first two angles
\* in the other order than try_from reads them
Message_as_bytes_swapped(m) ==
    IF m.variant = "Alarm"
    THEN <<CLOCK_MESSAGE_HEADER>> \o Alarm_as_bytes(m.body)
    ELSE <<CLOCK_MESSAGE_HEADER, m.body.hours, m.body.minutes, m.body.seconds>>
         \o to_be_bytes(m.body.minutes_angle)
         \o to_be_bytes(m.body.hours_angle)
         \o to_be_bytes(m.body.seconds_angle)

\* Message::as_bytes: the header byte, then the variant's own as_bytes
Message_as_bytes(m) ==
    IF m.variant = "Alarm"
    THEN <<ALARM_MESSAGE_HEADER>> \o Alarm_as_bytes(m.body)
    ELSE <<CLOCK_MESSAGE_HEADER>> \o ClockMessage_as_bytes(m.body)

\* impl TryFrom<Vec<u8>> for Message: the header picks the variant and the
\* rest of the vector, value[1..], goes to the variant's conversion
Message_try_from(value) ==
    IF value = <<>>
    THEN Err("Cannot convert message from empty byte vector")
    ELSE IF value[1] = ALARM_MESSAGE_HEADER
         THEN LET r == Alarm_from(Tail(value))
              IN  IF IsOk(r) THEN Ok(Message_Alarm(r.val)) ELSE r
         ELSE IF value[1] = CLOCK_MESSAGE_HEADER
              THEN LET r == ClockMessage_try_from(Tail(value))
                   IN  IF IsOk(r) THEN Ok(Message_Clock(r.val)) ELSE r
              ELSE Err("Unknown message header")

---------------------------------------------------------------------------
(* Inputs the specifications draw from. *)

\* instants: shortly before noon and shortly before midnight
SampleInstants ==
    {Instant(wd, hms[1], hms[2], hms[3]) :
        wd \in {0, 5, 6}, hms \in {<<11, 59, 59>>, <<23, 59, 58>>}}

EvalNows ==
    {(t0 + d) % QuantaPerWeek : t0 \in SampleInstants, d \in 0..(3 * QuantaPerSec)}

\* alarms as Alarm::all or a JSON request can hand them over: every field a
\* u8, the time not necessarily a valid time of day
EvalAlarms ==
    {Alarm(None, d, hms[1], hms[2], hms[3]) :
        d \in {0, 1, 64, 127, 128, 255},
        hms \in {<<12, 0, 0>>, <<23, 59, 59>>, <<0, 0, 0>>,
                 <<24, 0, 0>>, <<12, 60, 0>>, <<12, 0, 60>>}}

CodecAlarms ==
    {Alarm(id, d, h, 0, s) :
        id \in {None, Some(1)}, d \in {0, 1, 127, 255}, h \in {0, 12, 255},
        s \in {0, 59}}

CodecClocks ==
    {ClockMessage_default(t + d) : t \in {Instant(0, 11, 59, 59), Instant(5, 23, 59, 59)},
                                   d \in {0, QuantaPerSec}}

CodecMessages ==
    {Message_Alarm(a) : a \in CodecAlarms} \cup {Message_Clock(c) : c \in CodecClocks}

\* a clock payload whose hours_angle bytes 7F C0 00 00 are a NaN
NaNClockPayload ==
    <<1, 2, 3, 127, 192, 0, 0, 63, 201, 15, 219, 0, 0, 0, 0>>

\* byte vectors a SUB socket can deliver
FramePool ==
    {<<>>, <<1, 2>>, <<255>>, <<255, 1>>, <<255, 1, 12>>, <<255, 1, 12, 0>>,
     <<254>>, <<254, 12, 0, 0>>, <<0>>, <<253, 1, 12, 0, 0>>,
     <<255, 255, 1, 12, 0, 0>>, <<255, 1, 12, 0, 0, 7>>}
    \cup {<<255, d, h, m, s>> : d \in {0, 1, 255}, h \in {0, 12, 255},
                               m \in {0, 59}, s \in {0, 59}}
    \cup {ClockMessage_as_bytes(c) : c \in CodecClocks}
    \cup {<<254>> \o ClockMessage_as_bytes(c) : c \in CodecClocks}
    \cup {<<254>> \o SubSeq(ClockMessage_as_bytes(c), 1, 14) : c \in CodecClocks}
    \cup {<<254>> \o NaNClockPayload, <<254>> \o NaNClockPayload \o <<9>>}

---------------------------------------------------------------------------
(* The evaluator called once: SpecEval. *)

EvalIdle  == evAlarm = Alarm(None, 0, 0, 0, 0) /\ evNow = 0 /\ evResult = NoResult
CodecIdle == cmsg = NoMessage /\ wire = None /\ decoded = NoResult
PubIdle ==
    /\ pc = "off" /\ running = FALSE /\ now = 0 /\ tick_duration = 0
    /\ table = <<>> /\ alarms = <<>> /\ idx = 0 /\ sent = <<>>
    /\ tickNo = 0 /\ drift = 0 /\ errlog = <<>> /\ ctrlcAt = None
    /\ exitCode = "none" /\ evals = [on |-> FALSE, log |-> <<>>]
LisIdle ==
    /\ lpc = "off" /\ running_flag = FALSE /\ received = <<>>
    /\ callbacks = <<>> /\ listened = NoResult
StoreIdle ==
    /\ conn = [exists |-> FALSE, rows |-> <<>>]
    /\ held = Alarm(None, 0, 0, 0, 0)
    /\ call = [op |-> "none", alarm |-> Alarm(None, 0, 0, 0, 0),
               before |-> [exists |-> FALSE, rows |-> <<>>],
               fault |-> "none", result |-> NoResult]
    /\ nCalls = 0 /\ removed = {}
ConvIdle ==
    cvKind = "off" /\ cvIn = None /\ cvMid = NoResult /\ cvOut = NoResult
NetIdle == air = <<>>
AppIdle ==
    /\ CONN = None /\ opened = 0 /\ lock = <<>>
    /\ tpc = <<>> /\ top = <<>> /\ tconn = <<>>
SchemaIdle == spc = <<>> /\ sop = <<>> /\ sres = <<>>

InitEval ==
    /\ evAlarm \in EvalAlarms /\ evNow \in EvalNows /\ evResult = NoResult
    /\ CodecIdle /\ PubIdle /\ LisIdle /\ StoreIdle /\ ConvIdle
    /\ NetIdle /\ AppIdle /\ SchemaIdle

\* alarm.must_ring() at the instant evNow
CallMustRing ==
    /\ evResult.tag = "None"
    /\ evResult' = must_ring(evAlarm, evNow)
    /\ UNCHANGED <<evAlarm, evNow, codecVars, pubVars, lisVars,
                   storeVars, convVars,
                   netVars, appVars, schemaVars>>

NextEval == CallMustRing
SpecEval == InitEval /\ [][NextEval]_vars

\* C1: must_ring(alarm, now) is true exactly when now's weekday is one of
\* the alarm's active days (bit0 = Monday ... bit6 = Sunday), now's time of
\* day is not before the alarm's hour:minute:seconds and less than one
\* second after it; for an alarm whose fields form a time of day it is false
\* in every other case.
C1_MustRingWindow ==
    evResult.tag # "None" =>
        LET a         == evAlarm
            valid     == a.hour <= 23 /\ a.minute <= 59 /\ a.seconds <= 59
            at        == (a.hour * 3600 + a.minute * 60 + a.seconds) * QuantaPerSec
            dayActive == (a.active_days \div (2 ^ weekday(evNow))) % 2 = 1
            inWindow  == /\ dayActive
                         /\ time(evNow) >= at
                         /\ time(evNow) - at < QuantaPerSec
            rang      == IsOk(evResult) /\ evResult.val
        IN  /\ rang <=> (valid /\ inWindow)
            /\ valid => IsOk(evResult)

\* the evaluator has answered true for a Monday-only alarm at an instant
\* strictly inside its window
C1_Witness ==
    /\ IsOk(evResult) /\ evResult.val
    /\ time(evNow) > (evAlarm.hour * 3600 + evAlarm.minute * 60 + evAlarm.seconds) * QuantaPerSec
    /\ evAlarm.active_days = 1

---------------------------------------------------------------------------
(* The envelope codec applied to messages and to byte vectors: SpecCodec. *)

InitCodec ==
    /\ decoded = NoResult
    /\ \/ cmsg \in CodecMessages /\ wire = None
       \/ cmsg = NoMessage /\ wire \in {Some(f) : f \in FramePool}
    /\ EvalIdle /\ PubIdle /\ LisIdle /\ StoreIdle /\ ConvIdle
    /\ NetIdle /\ AppIdle /\ SchemaIdle

\* message.as_bytes()
Encode ==
    /\ cmsg.variant # "None" /\ wire = None
    /\ wire' = Some(Message_as_bytes(cmsg))
    /\ UNCHANGED <<cmsg, decoded, evalVars, pubVars, lisVars,
                   storeVars, convVars,
                   netVars, appVars, schemaVars>>

\* Message::try_from(bytes)
Decode ==
    /\ wire # None /\ decoded.tag = "None"
    /\ decoded' = Message_try_from(wire[1])
    /\ UNCHANGED <<cmsg, wire, evalVars, pubVars, lisVars,
                   storeVars, convVars,
                   netVars, appVars, schemaVars>>

\* a Message obtained by decoding is encoded in its turn
Reuse ==
    /\ cmsg.variant = "None" /\ IsOk(decoded)
    /\ cmsg' = decoded.val /\ wire' = None /\ decoded' = NoResult
    /\ UNCHANGED <<evalVars, pubVars, lisVars,
                   storeVars, convVars,
                   netVars, appVars, schemaVars>>

NextCodec == Encode \/ Decode \/ Reuse
SpecCodec == InitCodec /\ [][NextCodec]_vars

\* the bytes in wire have been decoded
Decoded == wire # None /\ decoded.tag # "None"

\* C4: decoding a 5-byte buffer [0xFF, d, h, m, s] yields the Alarm variant
\* with active_days = d, hour = h, minute = m, seconds = s and id = none.
C4_DecodeAlarmFrame ==
    (Decoded /\ Len(wire[1]) = 5 /\ wire[1][1] = 255) =>
        /\ IsOk(decoded)
        /\ decoded.val.variant = "Alarm"
        /\ decoded.val.body =
               Alarm(None, wire[1][2], wire[1][3], wire[1][4], wire[1][5])

\* a buffer that is no well-formed frame: empty, an unknown header, or a
\* header with fewer payload bytes than its variant needs
Malformed(f) ==
    \/ f = <<>>
    \/ f[1] \notin {255, 254}
    \/ f[1] = 255 /\ Len(f) - 1 < 4
    \/ f[1] = 254 /\ Len(f) - 1 < 15

\* C5: decoding a buffer that is not a well-formed frame returns an error
\* value, never an Ok result and never a crash.
C5_MalformedIsError ==
    (Decoded /\ Malformed(wire[1])) => IsErr(decoded)

\* the message in cmsg has been encoded into wire, and wire decoded
RoundTripped == cmsg.variant # "None" /\ Decoded

HasNaN(c) ==
    is_nan(c.hours_angle) \/ is_nan(c.minutes_angle) \/ is_nan(c.seconds_angle)

\* C9 as stated: for every Message m (the Clock variant, or the Alarm
\* variant with id = none), decoding m.as_bytes() succeeds and returns a
\* Message equal to m, of the same variant.
C9_RoundTripEveryMessage ==
    (RoundTripped /\ (cmsg.variant = "Alarm" => cmsg.body.id = None)) =>
        /\ IsOk(decoded)
        /\ decoded.val.variant = cmsg.variant
        /\ Message_eq(decoded.val, cmsg)

\* C9 amended: for every Message m that is a Clock none of whose angles is a
\* NaN, or an Alarm with id = none, decoding m.as_bytes() succeeds and
\* returns a Message equal to m, of the same variant.
C9_RoundTrip ==
    (/\ RoundTripped
     /\ cmsg.variant = "Alarm" => cmsg.body.id = None
     /\ cmsg.variant = "Clock" => ~HasNaN(cmsg.body)) =>
        /\ IsOk(decoded)
        /\ decoded.val.variant = cmsg.variant
        /\ Message_eq(decoded.val, cmsg)

\* a Clock message built from the local time has made the round trip
C9_Witness ==
    /\ RoundTripped /\ IsOk(decoded)
    /\ cmsg \in {Message_Clock(c) : c \in CodecClocks}

\* C10: the envelope of an Alarm message is exactly the 5 bytes 0xFF,
\* active_days, hour, minute, seconds; the envelope of a Clock message is
\* 0xFE followed by the 15-byte clock payload.
C10_EnvelopeLayout ==
    (cmsg.variant # "None" /\ wire # None) =>
        IF cmsg.variant = "Alarm"
        THEN wire[1] = <<255, cmsg.body.active_days, cmsg.body.hour,
                         cmsg.body.minute, cmsg.body.seconds>>
        ELSE /\ Len(wire[1]) = 16
             /\ wire[1][1] = 254
             /\ Tail(wire[1]) = ClockMessage_as_bytes(cmsg.body)

---------------------------------------------------------------------------
(* The daemon: clockrobustusd/src/main.rs.  SpecPub, and SpecPubFair.      *)

\* a row of table alarms(id, active_days, hour, minute, seconds)
Row(id, d, h, m, s) ==
    [id |-> id, active_days |-> d, hour |-> h, minute |-> m, seconds |-> s]

\* Alarm::all when every statement succeeds: each row read so far, in row
\* order, each INTEGER column but id cast with `as u8`.  The loop
\* `while let Ok(State::Row) = statement.next()` ends at the first step that
\* is not Ok(State::Row): at the end of the table (n = Len(rows)) or at a
\* step that fails (n rows read before it)
Alarm_all(rows, n) ==
    [i \in 1..n |->
        Alarm(Some(rows[i].id), U8(rows[i].active_days), U8(rows[i].hour),
              U8(rows[i].minute), U8(rows[i].seconds))]

Tables ==
    {<<>>,
     <<Row(1, 127, 12, 0, 0)>>,
     <<Row(1, 1, 0, 0, 0), Row(2, 127, 12, 0, 0)>>,
     <<Row(1, 127, 24, 0, 0), Row(2, 127, 12, 0, 0)>>,
     <<Row(1, 127, 12, 0, 0), Row(2, 1, 12, 0, 0)>>}

StartTimes == {Instant(0, 11, 59, 59), Instant(6, 23, 59, 59)}

\* CLOCKROBUSTUS_TICK_DURATION_MS, in quanta: 1000 ms by default, and a
\* shorter and a longer setting
DefaultTick   == QuantaPerSec
TickDurations == {QuantaPerSec \div 2, DefaultTick, QuantaPerSec + QuantaPerSec \div 2}

\* positions inside tick()
InTick == {"all", "alarms", "clock"}

\* main on entering its loop, over a database holding one of tables
DaemonStarts(tables, logging) ==
    /\ pc = "loop" /\ running = TRUE
    /\ now \in StartTimes /\ tick_duration \in TickDurations
    /\ table \in tables
    /\ alarms = <<>> /\ idx = 0 /\ sent = <<>>
    /\ tickNo = 0 /\ drift = 0 /\ errlog = <<>> /\ ctrlcAt = None
    /\ exitCode = "none" /\ evals = [on |-> logging, log |-> <<>>]

\* the daemon alone
InitDaemon(tables, logging) ==
    /\ DaemonStarts(tables, logging)
    /\ EvalIdle /\ CodecIdle /\ LisIdle /\ StoreIdle /\ ConvIdle
    /\ NetIdle /\ AppIdle /\ SchemaIdle

InitPub == InitDaemon(Tables, FALSE)

\* the ctrlc handler: rc.store(false)
CtrlC ==
    /\ pc \notin {"off", "stopped"} /\ running
    /\ running' = FALSE
    /\ ctrlcAt' = Some([tick |-> tickNo, pc |-> pc])
    /\ UNCHANGED <<evals, pc, now, tick_duration, table, alarms, idx, sent, tickNo,
                   drift, errlog, exitCode, evalVars, codecVars, lisVars,
                   storeVars, convVars,
                   netVars, appVars, schemaVars>>

\* time passing while a tick is at work
TimePasses ==
    /\ pc \in InTick /\ drift < MaxDrift
    /\ now' = (now + 1) % QuantaPerWeek
    /\ drift' = drift + 1
    /\ UNCHANGED <<evals, pc, running, tick_duration, table, alarms, idx, sent,
                   tickNo, errlog, ctrlcAt, exitCode, evalVars, codecVars,
                   lisVars,
                   storeVars, convVars,
                   netVars, appVars, schemaVars>>

\* main propagating tick's error with `?` instead of printing it
tick_failed_exits(e) ==
    /\ errlog' = Append(errlog, e)
    /\ pc' = "stopped"
    /\ exitCode' = "Err"

\* tick returned Err(e): main prints it ("Still running") and goes to sleep
tick_failed(e) ==
    /\ errlog' = Append(errlog, e)
    /\ pc' = "sleep"
    /\ exitCode' = exitCode

\* a loop that never looks at the flag
loop_break_never == FALSE

\* the test at the top of main's loop: !running.load()
loop_break == ~running

\* the loop's top with the flag cleared: break, print, return Ok(())
Break ==
    /\ pc = "loop" /\ loop_break
    /\ pc' = "stopped" /\ exitCode' = "Ok"
    /\ UNCHANGED <<evals, running, now, tick_duration, table, alarms, idx, sent,
                   tickNo, drift, errlog, ctrlcAt, evalVars, codecVars,
                   lisVars,
                   storeVars, convVars,
                   netVars, appVars, schemaVars>>

\* the loop's top with the flag set: tick is called
StartTick ==
    /\ pc = "loop" /\ ~loop_break /\ tickNo < MaxTicks
    /\ pc' = "all" /\ tickNo' = tickNo + 1
    /\ sent' = <<>> /\ alarms' = <<>> /\ idx' = 0
    /\ UNCHANGED <<evals, running, now, tick_duration, table, drift, errlog,
                   ctrlcAt, exitCode, evalVars, codecVars, lisVars,
                   storeVars, convVars,
                   netVars, appVars, schemaVars>>

\* tick: let alarms = Alarm::all(conn)?  check_table, prepare or a column
\* read fails and `?` leaves tick, or the rows stepped through come back
FetchAlarms ==
    /\ pc = "all"
    /\ \/ \E n \in 0..Len(table) :
             /\ alarms' = Alarm_all(table, n)
             /\ idx' = 1
             /\ pc' = IF n = 0 THEN "clock" ELSE "alarms"
             /\ UNCHANGED <<errlog, exitCode>>
       \/ /\ tick_failed("Database Error")
          /\ UNCHANGED <<alarms, idx>>
    /\ UNCHANGED <<evals, running, now, tick_duration, table, sent, tickNo, drift,
                   ctrlcAt, evalVars, codecVars, lisVars,
                   storeVars, convVars,
                   netVars, appVars, schemaVars>>

\* socket.send(frame, 0) on the PUB socket: the frame goes out to the
\* listener that is connected and is dropped when there is none
published(frame) ==
    air' = IF lpc \in {"check", "recv"} THEN Append(air, frame) ELSE air

\* tick: one turn of `for alarm in alarms`: must_ring()?, and for an alarm
\* that must ring socket.send(alarm.as_bytes())?
EvalAlarm ==
    /\ pc = "alarms"
    /\ LET alarm == alarms[idx]
           r     == must_ring(alarm, now)
           next  == /\ idx' = idx + 1
                    /\ pc' = IF idx + 1 > Len(alarms) THEN "clock" ELSE "alarms"
                    /\ UNCHANGED <<errlog, exitCode>>
           logged(frame) ==
               evals' = IF evals.on
                        THEN [evals EXCEPT !.log =
                                 Append(@, [alarm |-> alarm, at |-> now,
                                            frame |-> frame])]
                        ELSE evals
       IN  IF IsErr(r)
           THEN /\ tick_failed(r.val) /\ UNCHANGED <<idx, sent, air>>
                /\ logged(FALSE)
           ELSE IF r.val
                THEN \/ /\ sent' = Append(sent, Alarm_as_bytes(alarm)) /\ next
                        /\ published(Alarm_as_bytes(alarm))
                        /\ logged(TRUE)
                     \/ /\ tick_failed("ZMQ Error")
                        /\ UNCHANGED <<idx, sent, air>>
                        /\ logged(FALSE)
                ELSE /\ next /\ UNCHANGED <<sent, air>>
                     /\ logged(FALSE)
    /\ UNCHANGED <<running, now, tick_duration, table, alarms, tickNo, drift,
                   ctrlcAt, evalVars, codecVars, lisVars,
                   storeVars, convVars, appVars, schemaVars>>

\* tick: socket.send(ClockMessage::default().as_bytes())?, then Ok(())
SendClock ==
    /\ pc = "clock"
    /\ \/ /\ sent' = Append(sent, ClockMessage_as_bytes(ClockMessage_default(now)))
          /\ published(ClockMessage_as_bytes(ClockMessage_default(now)))
          /\ pc' = "sleep"
          /\ UNCHANGED <<errlog, exitCode>>
       \/ tick_failed("ZMQ Error") /\ UNCHANGED <<sent, air>>
    /\ UNCHANGED <<evals, running, now, tick_duration, table, alarms, idx, tickNo,
                   drift, ctrlcAt, evalVars, codecVars, lisVars,
                   storeVars, convVars, appVars, schemaVars>>

\* sleep(Duration::from_millis(tick_duration)), then the loop's top again
Sleep ==
    /\ pc = "sleep"
    /\ now' = (now + tick_duration) % QuantaPerWeek
    /\ pc' = "loop"
    /\ UNCHANGED <<evals, running, tick_duration, table, alarms, idx, sent, tickNo,
                   drift, errlog, ctrlcAt, exitCode, evalVars, codecVars,
                   lisVars,
                   storeVars, convVars,
                   netVars, appVars, schemaVars>>

\* the steps of the daemon's own thread
DaemonStep == Break \/ StartTick \/ FetchAlarms \/ EvalAlarm \/ SendClock \/ Sleep

NextPub == DaemonStep \/ CtrlC \/ TimePasses
SpecPub == InitPub /\ [][NextPub]_vars

\* the daemon's thread keeps running: no step of it blocks for ever
SpecPubFair == SpecPub /\ WF_vars(DaemonStep)

\* the frames of the current tick that carry the clock of the current time,
\* with or without the envelope's header byte
ClockFramesSent ==
    LET payload == ClockMessage_as_bytes(ClockMessage_default(now))
    IN  {i \in 1..Len(sent) : sent[i] \in {payload, <<254>> \o payload}}

\* C2: every iteration of the publisher loop that starts with the shutdown
\* flag not set publishes exactly one Clock frame built from the current
\* time, also when reading the alarms from the store fails.
C2_ClockEveryTick ==
    pc = "sleep" => Cardinality(ClockFramesSent) = 1

\* an envelope-encoded frame: 0xFF and the 4-byte alarm payload, or 0xFE and
\* the 15-byte clock payload
Enveloped(f) ==
    \/ Len(f) = 5 /\ f[1] = 255
    \/ Len(f) = 16 /\ f[1] = 254

\* C3: every frame the publisher loop writes to the broadcast transport is
\* envelope-encoded; no frame is published without its header byte.
C3_FramesEnveloped ==
    \A i \in 1..Len(sent) : Enveloped(sent[i])

C8_CooperativeShutdown ==
    /\ [][/\ ~running => (~running' /\ tickNo' = tickNo)
          /\ (~running /\ pc \in InTick) => pc' \in InTick \cup {"sleep"}
          /\ pc = "stopped" => UNCHANGED pubVars
         ]_vars
    /\ [](pc = "stopped" => (exitCode = "Ok" /\ ~running))
    /\ (~running ~> pc = "stopped")

\* the daemon has stopped after ctrl-c arrived while the store was being
\* read, and that tick went on to publish an alarm frame and the clock frame
C8_Witness ==
    /\ pc = "stopped" /\ exitCode = "Ok"
    /\ ctrlcAt = Some([tick |-> tickNo, pc |-> "all"])
    /\ Len(sent) = 2

\* C23: within one tick, every stored alarm for which must_ring is true is
\* published in that tick, even when evaluating or publishing another alarm
\* earlier in the list fails: when the loop over the alarms is left for
\* main's sleep, no alarm further down the list is due.
C23_FailureSkipsNoDueAlarm ==
    [][(pc = "alarms" /\ pc' = "sleep") =>
          \A j \in (idx + 1)..Len(alarms) :
              must_ring(alarms[j], now) # Ok(TRUE)]_vars

---------------------------------------------------------------------------
(* The daemon with its calls of must_ring logged: SpecPubLogged.           *)

\* the databases of the logged runs
LoggedTables ==
    {<<Row(1, 127, 12, 0, 0)>>, <<Row(1, 1, 0, 0, 0)>>}

InitPubLogged == InitDaemon(LoggedTables, TRUE)

\* the daemon at work while no ctrl-c arrives
NextPubLogged ==
    StartTick \/ FetchAlarms \/ EvalAlarm \/ SendClock \/ Sleep \/ TimePasses
SpecPubLogged == InitPubLogged /\ [][NextPubLogged]_vars

\* the logged calls of alarm.must_ring() sampled on weekday day
EvalsOn(alarm, day) ==
    {i \in 1..Len(evals.log) :
        evals.log[i].alarm = alarm /\ weekday(evals.log[i].at) = day}

\* t lies in the alarm's firing window: from its time of day to one second
\* later, the end excluded
InFiringWindow(alarm, t) ==
    LET at == (alarm.hour * 3600 + alarm.minute * 60 + alarm.seconds) * QuantaPerSec
    IN  time(t) >= at /\ time(t) - at < QuantaPerSec

\* the alarms the daemon has evaluated
LoggedAlarms == {evals.log[i].alarm : i \in 1..Len(evals.log)}

\* C15: in an execution in which no tick's sampled time falls inside an
\* alarm's one-second firing window on a day, no Alarm frame is published
\* for that alarm on that day: no later tick fires it to catch up.  (That
\* such executions exist when the tick interval exceeds one second is
\* C15_Witness.)
C15_SkippedAlarmStaysSilent ==
    \A alarm \in LoggedAlarms : \A day \in 0..6 :
        (\A i \in EvalsOn(alarm, day) : ~InFiringWindow(alarm, evals.log[i].at))
            => (\A i \in EvalsOn(alarm, day) : ~evals.log[i].frame)

\* with a tick interval above one second, an alarm active on every day was
\* evaluated before its window and again after it on the same day, never
\* inside it, the ticks all ran to their end, and no frame went out for it
C15_Witness ==
    LET alarm == Alarm(Some(1), 127, 12, 0, 0)
        day   == weekday(now)
        at    == Instant(day, 12, 0, 0)
    IN  /\ tick_duration > QuantaPerSec
        /\ table = <<Row(1, 127, 12, 0, 0)>>
        /\ errlog = <<>> /\ pc = "sleep"
        /\ \E i, j \in EvalsOn(alarm, day) :
              /\ evals.log[i].at < at
              /\ evals.log[j].at >= at + QuantaPerSec
        /\ \A i \in EvalsOn(alarm, day) :
              ~InFiringWindow(alarm, evals.log[i].at) /\ ~evals.log[i].frame

\* the first instant of the alarm's firing window on weekday day
WindowStart(alarm, day) ==
    Instant(day, alarm.hour, alarm.minute, alarm.seconds)

\* every tick so far read the stored alarm, evaluated it and ran to its end
EveryTickEvaluated ==
    errlog = <<>> /\ pc = "sleep" /\ Len(evals.log) = tickNo

\* C24: with the default cadence (a 1000 ms sleep after each tick), store
\* reads and publishes never failing, and any tick processing time, every
\* stored alarm whose active_days contains the weekday is published at
\* least once during its one-second firing window, provided the daemon is
\* running throughout the window (it evaluated the alarm before the window
\* and again after it).
C24_DefaultCadenceFiresEveryWindow ==
    (tick_duration = DefaultTick /\ EveryTickEvaluated) =>
        \A alarm \in LoggedAlarms : \A day \in 0..6 :
            (/\ contains(to_weekdays(alarm.active_days), day)
             /\ \E i, j \in EvalsOn(alarm, day) :
                   /\ evals.log[i].at < WindowStart(alarm, day)
                   /\ evals.log[j].at >= WindowStart(alarm, day) + QuantaPerSec)
            => \E k \in EvalsOn(alarm, day) :
                   evals.log[k].frame /\ InFiringWindow(alarm, evals.log[k].at)

\* C25: for any configured tick cadence, values below 1000 ms included, a
\* stored alarm is published at most once per firing window: at most one
\* Alarm frame per alarm per active day goes out.
C25_OneFramePerWindow ==
    \A alarm \in LoggedAlarms : \A day \in 0..6 :
        Cardinality({i \in EvalsOn(alarm, day) : evals.log[i].frame}) <= 1

---------------------------------------------------------------------------
(* The subscriber: queue::listen.  SpecListen.                             *)

\* frames the SUB socket delivers: what the daemon publishes (an alarm as
\* Alarm::as_bytes, a clock as ClockMessage::as_bytes), what
\* Message::as_bytes produces, and buffers that are no frame
ListenFrames ==
    {<<>>, <<1, 2>>, <<255>>, <<255, 1, 12, 0, 0>>, <<255, 255, 1, 12, 0, 0>>,
     ClockMessage_as_bytes(ClockMessage_default(Instant(0, 11, 59, 59))),
     <<254>> \o ClockMessage_as_bytes(ClockMessage_default(Instant(0, 11, 59, 59)))}

\* listen on entering its loop, connected and subscribed
ListenStarts ==
    /\ lpc = "check" /\ running_flag = TRUE
    /\ received = <<>> /\ callbacks = <<>> /\ listened = NoResult

InitListen ==
    /\ ListenStarts
    /\ EvalIdle /\ CodecIdle /\ PubIdle /\ StoreIdle /\ ConvIdle
    /\ NetIdle /\ AppIdle /\ SchemaIdle

\* the holder of the flag clears it
StopListening ==
    /\ lpc \in {"check", "recv"} /\ running_flag
    /\ running_flag' = FALSE
    /\ UNCHANGED <<lpc, received, callbacks, listened, evalVars, codecVars,
                   pubVars,
                   storeVars, convVars,
                   netVars, appVars, schemaVars>>

\* the loop's top with the flag cleared: break, return Ok(())
ListenBreak ==
    /\ lpc = "check" /\ ~running_flag
    /\ lpc' = "returned" /\ listened' = Ok("unit")
    /\ UNCHANGED <<running_flag, received, callbacks, evalVars, codecVars,
                   pubVars,
                   storeVars, convVars,
                   netVars, appVars, schemaVars>>

\* the loop's top with the flag set: on to socket.recv
ListenOn ==
    /\ lpc = "check" /\ running_flag
    /\ lpc' = "recv"
    /\ UNCHANGED <<running_flag, received, callbacks, listened, evalVars,
                   codecVars, pubVars,
                   storeVars, convVars,
                   netVars, appVars, schemaVars>>

\* socket.recv(&mut msg, 0)? fails
RecvFails ==
    /\ lpc = "recv"
    /\ lpc' = "returned" /\ listened' = Err("ZMQ Error")
    /\ UNCHANGED <<running_flag, received, callbacks, evalVars, codecVars,
                   pubVars,
                   storeVars, convVars,
                   netVars, appVars, schemaVars>>

\* the loop's body behind socket.recv, msg holding the frame f:
\* Message::try_from(bytes)?, callback(message)
Receive(f) ==
    LET r == Message_try_from(f)
    IN  /\ received' = Append(received, f)
        /\ IF IsOk(r)
           THEN /\ callbacks' = Append(callbacks, r.val)
                /\ lpc' = "check"
                /\ UNCHANGED listened
           ELSE /\ lpc' = IF IsPanic(r) THEN "panicked" ELSE "returned"
                /\ listened' = r
                /\ UNCHANGED callbacks

\* socket.recv delivers a frame of some publisher
RecvFrame ==
    /\ lpc = "recv" /\ Len(received) < MaxFrames
    /\ \E f \in ListenFrames : Receive(f)
    /\ UNCHANGED <<running_flag, evalVars, codecVars, pubVars,
                   storeVars, convVars,
                   netVars, appVars, schemaVars>>

\* socket.recv delivers the oldest frame the daemon has sent to this
\* listener
RecvPublished ==
    /\ lpc = "recv" /\ air # <<>>
    /\ Receive(Head(air))
    /\ air' = Tail(air)
    /\ UNCHANGED <<running_flag, evalVars, codecVars, pubVars,
                   storeVars, convVars, appVars, schemaVars>>

NextListen == StopListening \/ ListenBreak \/ ListenOn \/ RecvFails \/ RecvFrame
SpecListen == InitListen /\ [][NextListen]_vars

\* the number of frames at the head of fs that decode successfully
RECURSIVE GoodPrefix(_)
GoodPrefix(fs) ==
    IF fs = <<>> \/ ~IsOk(Message_try_from(Head(fs))) THEN 0
    ELSE 1 + GoodPrefix(Tail(fs))

\* C6: the dispatcher callbacks are, in arrival order and one per frame, the
\* decoded values of the longest prefix of received frames that all decode;
\* the first frame that fails to decode ends the loop and listen returns
\* that error to its caller, with no callback for that frame or a later one.
C6_DecodeFailureIsReturned ==
    LET k == GoodPrefix(received)
    IN  /\ callbacks = [i \in 1..k |-> Message_try_from(received[i]).val]
        /\ k < Len(received) =>
              /\ k + 1 = Len(received)
              /\ lpc = "returned"
              /\ IsErr(listened)

\* the listener's thread keeps running: the test of the flag at the loop's
\* top is always taken in the end.  socket.recv(&mut msg, 0) blocks until a
\* publisher sends a frame or the socket fails, which nothing guarantees.
SpecListenFair == SpecListen /\ WF_vars(ListenBreak \/ ListenOn)

\* C29: after a listener's shutdown flag is set, its listen loop eventually
\* returns, even if no further frame is ever published: the listener is not
\* left blocked in the receive step for ever.
C29_StoppedListenerReturns ==
    ~running_flag ~> (lpc \in {"returned", "panicked"})

---------------------------------------------------------------------------
(* The daemon with a listener of the library connected to it: SpecPubSub.  *)

\* the daemon enters its loop with a listener subscribed
InitPubSub ==
    /\ DaemonStarts(Tables, FALSE)
    /\ ListenStarts
    /\ NetIdle
    /\ EvalIdle /\ CodecIdle /\ StoreIdle /\ ConvIdle /\ AppIdle
    /\ SchemaIdle

NextPubSub ==
    \/ StartTick \/ FetchAlarms \/ EvalAlarm \/ SendClock \/ Sleep \/ TimePasses
    \/ ListenOn \/ RecvPublished
SpecPubSub == InitPubSub /\ [][NextPubSub]_vars

\* C22: publisher and library subscriber agree on the wire format: every
\* frame a tick of the daemon publishes is envelope-decoded by the listen
\* loop without error, with one callback per frame, so a listener attached
\* to a running daemon is never terminated by a frame the daemon sent.
C22_ListenerDecodesPublishedFrames ==
    /\ \A i \in 1..Len(received) : IsOk(Message_try_from(received[i]))
    /\ Len(callbacks) = Len(received)
    /\ lpc \in {"check", "recv"} /\ listened = NoResult

---------------------------------------------------------------------------
(* The alarm store: Alarm::save, Alarm::all and Alarm::remove on a sqlite  *)
(* Connection.  SpecStore.  The database is [exists, rows]: whether table  *)
(* alarms has been created, and its rows in rowid order, the order in      *)
(* which SELECT * steps through them.  Each call runs its statements one   *)
(* by one; a statement that fails changes nothing (sqlite statements are   *)
(* atomic) and fault names the statement of the call that fails.           *)

\* rows the table may hold at the start of an insert
MaxRows == 3
\* calls made on the store in one run
MaxCalls == 3

Database(exists, rows) == [exists |-> exists, rows |-> rows]

\* the outcome of a call: what it returns and the database it leaves
Outcome(r, c) == [result |-> r, conn |-> c]

ids(rows) == {rows[i].id : i \in 1..Len(rows)}

\* id INTEGER PRIMARY KEY of an INSERT that names no id: one more than the
\* largest rowid of the table, 1 in an empty table
new_rowid(rows) == IF rows = <<>> THEN 1 ELSE rows[Len(rows)].id + 1

\* Alarm::check_table: CREATE TABLE alarms unless sqlite_master lists it
check_table(c, fails) ==
    IF fails THEN Outcome(Err("Database Error"), c)
    ELSE Outcome(Ok("unit"), Database(TRUE, c.rows))

\* UPDATE alarms SET active_days, hour, minute, seconds WHERE id = eid
update(rows, eid, alarm) ==
    [i \in 1..Len(rows) |->
        IF rows[i].id = eid
        THEN Row(eid, alarm.active_days, alarm.hour, alarm.minute, alarm.seconds)
        ELSE rows[i]]

\* INSERT INTO alarms (active_days, hour, minute, seconds) VALUES (...)
insert(rows, alarm) ==
    Append(rows, Row(new_rowid(rows), alarm.active_days, alarm.hour,
                     alarm.minute, alarm.seconds))

\* DELETE FROM alarms WHERE id = eid
delete(rows, eid) == SelectSeq(rows, LAMBDA r : r.id # eid)

\* a save whose INSERT takes the place of a row with the same field values
Alarm_save_dedup(alarm, c, fault) ==
    LET ct == check_table(c, fault = "check_table")
        same(r) == /\ r.active_days = alarm.active_days /\ r.hour = alarm.hour
                   /\ r.minute = alarm.minute /\ r.seconds = alarm.seconds
    IN  IF IsErr(ct.result) THEN ct
        ELSE IF fault = "execute" THEN Outcome(Err("Database Error"), ct.conn)
        ELSE IF alarm.id # None
             THEN Outcome(Ok("unit"),
                          Database(TRUE, update(ct.conn.rows, alarm.id[1], alarm)))
             ELSE Outcome(Ok("unit"),
                          Database(TRUE,
                              insert(SelectSeq(ct.conn.rows, LAMBDA r : ~same(r)),
                                     alarm)))

\* a save whose UPDATE has lost its WHERE clause
Alarm_save_no_where(alarm, c, fault) ==
    LET ct == check_table(c, fault = "check_table")
    IN  IF IsErr(ct.result) THEN ct
        ELSE IF fault = "execute" THEN Outcome(Err("Database Error"), ct.conn)
        ELSE IF alarm.id # None
             THEN Outcome(Ok("unit"),
                          Database(TRUE,
                              [i \in 1..Len(ct.conn.rows) |->
                                  Row(ct.conn.rows[i].id, alarm.active_days,
                                      alarm.hour, alarm.minute, alarm.seconds)]))
             ELSE Outcome(Ok("unit"), Database(TRUE, insert(ct.conn.rows, alarm)))

\* a save that inserts the row when its UPDATE matches none
Alarm_save_or_insert(alarm, c, fault) ==
    LET ct == check_table(c, fault = "check_table")
    IN  IF IsErr(ct.result) THEN ct
        ELSE IF fault = "execute" THEN Outcome(Err("Database Error"), ct.conn)
        ELSE IF alarm.id # None /\ alarm.id[1] \in ids(ct.conn.rows)
             THEN Outcome(Ok("unit"),
                          Database(TRUE, update(ct.conn.rows, alarm.id[1], alarm)))
             ELSE Outcome(Ok("unit"), Database(TRUE, insert(ct.conn.rows, alarm)))

\* Alarm::save: check_table(conn)?, then the UPDATE of row self.id or, for
\* an alarm without id, the INSERT; conn.execute(query)?; Ok(())
Alarm_save(alarm, c, fault) ==
    LET ct == check_table(c, fault = "check_table")
    IN  IF IsErr(ct.result) THEN ct
        ELSE IF fault = "execute" THEN Outcome(Err("Database Error"), ct.conn)
        ELSE IF alarm.id # None
             THEN Outcome(Ok("unit"),
                          Database(TRUE, update(ct.conn.rows, alarm.id[1], alarm)))
             ELSE Outcome(Ok("unit"), Database(TRUE, insert(ct.conn.rows, alarm)))

\* a remove that takes an alarm without id for nothing to do
Alarm_remove_lenient(alarm, c, fault) ==
    LET ct == check_table(c, fault = "check_table")
    IN  IF IsErr(ct.result) THEN ct
        ELSE IF alarm.id = None THEN Outcome(Ok("unit"), ct.conn)
        ELSE IF fault = "execute" THEN Outcome(Err("Database Error"), ct.conn)
        ELSE Outcome(Ok("unit"), Database(TRUE, delete(ct.conn.rows, alarm.id[1])))

\* Alarm::remove: check_table(conn)?, self.id.ok_or(...)?, the DELETE of row
\* eid; conn.execute(query)?; Ok(())
Alarm_remove(alarm, c, fault) ==
    LET ct == check_table(c, fault = "check_table")
    IN  IF IsErr(ct.result) THEN ct
        ELSE IF alarm.id = None
             THEN Outcome(Err("Impossible to delete an unsaved alarm"), ct.conn)
        ELSE IF fault = "execute" THEN Outcome(Err("Database Error"), ct.conn)
        ELSE Outcome(Ok("unit"), Database(TRUE, delete(ct.conn.rows, alarm.id[1])))

\* Alarm::all: check_table(conn)?, conn.prepare(query)?, then one Alarm per
\* step of the statement that is Ok(State::Row), each column read with `?`.
\* fault "step" is statement.next() failing after n rows: the while let loop
\* ends as it does at the end of the table, and Ok(res) follows
Alarm_all_in(c, fault, n) ==
    LET ct == check_table(c, fault = "check_table")
    IN  IF IsErr(ct.result) THEN ct
        ELSE IF fault \in {"prepare", "read"}
             THEN Outcome(Err("Database Error"), ct.conn)
        ELSE IF fault = "step"
             THEN Outcome(Ok(Alarm_all(ct.conn.rows, n)), ct.conn)
        ELSE Outcome(Ok(Alarm_all(ct.conn.rows, Len(ct.conn.rows))), ct.conn)

\* databases at the start: none yet, an empty table, tables with rows
StoreDatabases ==
    {Database(FALSE, <<>>), Database(TRUE, <<>>),
     Database(TRUE, <<Row(1, 127, 12, 0, 0)>>),
     Database(TRUE, <<Row(2, 1, 7, 30, 0), Row(5, 127, 12, 0, 0)>>)}

\* alarms a caller builds: without id or with one, stored or not, and one
\* whose u8 fields are no time of day
StoreAlarms ==
    {Alarm(id, f[1], f[2], f[3], f[4]) :
        id \in {None, Some(2), Some(5), Some(9)},
        f \in {<<127, 12, 0, 0>>, <<255, 13, 42, 22>>}}
    \cup {Alarm(None, 1, 24, 60, 60)}

\* alarms a caller takes from the last listing, as they are or with the
\* time of day changed
ListedAlarms ==
    IF call.op = "all" /\ IsOk(call.result)
    THEN LET listed == {call.result.val[i] : i \in 1..Len(call.result.val)}
         IN  listed \cup
             {[a EXCEPT !.hour = 13, !.minute = 42, !.seconds = 22] : a \in listed}
    ELSE {}

InitStore ==
    /\ conn \in StoreDatabases /\ held \in StoreAlarms
    /\ call = [op |-> "none", alarm |-> Alarm(None, 0, 0, 0, 0),
               before |-> [exists |-> FALSE, rows |-> <<>>],
               fault |-> "none", result |-> NoResult]
    /\ nCalls = 0 /\ removed = {}
    /\ EvalIdle /\ CodecIdle /\ PubIdle /\ LisIdle /\ ConvIdle
    /\ NetIdle /\ AppIdle /\ SchemaIdle

\* the outcome o of calling op on alarm with the statement fault failing
Called(op, alarm, fault, o) ==
    /\ nCalls < MaxCalls
    /\ conn' = o.conn
    /\ call' = [op |-> op, alarm |-> alarm, before |-> conn, fault |-> fault,
                result |-> o.result]
    /\ nCalls' = nCalls + 1
    /\ removed' = removed \cup (ids(conn.rows) \ ids(o.conn.rows))

\* the caller takes another alarm in hand
Hold ==
    /\ nCalls < MaxCalls
    /\ \E a \in StoreAlarms \cup ListedAlarms : a # held /\ held' = a
    /\ UNCHANGED <<conn, call, nCalls, removed, evalVars, codecVars, pubVars, lisVars,
                   convVars,
                   netVars, appVars, schemaVars>>

\* held.save(&conn): save takes &self, the caller's alarm stays as it is
Save ==
    /\ \E fault \in {"none", "check_table", "execute"} :
          /\ (fault = "none" /\ held.id = None) => Len(conn.rows) < MaxRows
          /\ Called("save", held, fault, Alarm_save(held, conn, fault))
    /\ UNCHANGED <<held, evalVars, codecVars, pubVars, lisVars, convVars,
                   netVars, appVars, schemaVars>>

\* held.remove(&conn); without an id the DELETE is never reached
Remove ==
    /\ \E fault \in {"none", "check_table", "execute"} :
          /\ fault = "execute" => held.id # None
          /\ Called("remove", held, fault, Alarm_remove(held, conn, fault))
    /\ UNCHANGED <<held, evalVars, codecVars, pubVars, lisVars, convVars,
                   netVars, appVars, schemaVars>>

\* Alarm::all(&conn); a column is read only once a row has been stepped to,
\* and the step that fails is one that had a row to deliver
ListAll ==
    /\ \E fault \in {"none", "check_table", "prepare", "step", "read"} :
       \E n \in 0..Len(conn.rows) :
          /\ fault = "read" => conn.rows # <<>>
          /\ IF fault = "step" THEN n < Len(conn.rows) ELSE n = Len(conn.rows)
          /\ Called("all", held, fault, Alarm_all_in(conn, fault, n))
    /\ UNCHANGED <<held, evalVars, codecVars, pubVars, lisVars, convVars,
                   netVars, appVars, schemaVars>>

NextStore == Hold \/ Save \/ Remove \/ ListAll
SpecStore == InitStore /\ [][NextStore]_vars

\* row r holds the alarm's four field values
HoldsFields(r, alarm) ==
    /\ r.active_days = alarm.active_days /\ r.hour = alarm.hour
    /\ r.minute = alarm.minute /\ r.seconds = alarm.seconds

\* the step being taken is a call of op on the store
Calls(op) == nCalls' = nCalls + 1 /\ call'.op = op

\* the last call was an upsert of an alarm without id, and it succeeded
Inserted == call.op = "save" /\ call.alarm.id = None /\ IsOk(call.result)

\* C11: upsert of an alarm with id = none adds exactly one row holding the
\* alarm's four field values under a generated id that differs from every
\* id in the table, and leaves every existing row unchanged; while the store
\* works, the next list_all returns that row with a set id; the in-memory
\* alarm keeps id = none, so repeating the same upsert adds one more row.
C11_InsertAddsOneRow ==
    /\ [](Inserted =>
            LET before == call.before.rows
                after  == conn.rows
            IN  /\ Len(after) = Len(before) + 1
                /\ \E k \in 1..Len(after) :
                      /\ HoldsFields(after[k], call.alarm)
                      /\ after[k].id \notin ids(before)
                      /\ \A i \in 1..Len(before) :
                            before[i] = after[IF i < k THEN i ELSE i + 1])
    /\ [][/\ (Calls("save") /\ held.id = None) =>
                (held' = held /\ call'.alarm = held)
          /\ (Inserted /\ Calls("save") /\ held = call.alarm /\ IsOk(call'.result)) =>
                Len(conn'.rows) = Len(conn.rows) + 1
          /\ (Inserted /\ Calls("all") /\ call'.fault = "none") =>
                /\ IsOk(call'.result)
                /\ \A k \in 1..Len(conn.rows) :
                      conn.rows[k].id \notin ids(call.before.rows) =>
                          \E i \in 1..Len(call'.result.val) :
                              call'.result.val[i] =
                                  Alarm(Some(conn.rows[k].id), call.alarm.active_days,
                                        call.alarm.hour, call.alarm.minute,
                                        call.alarm.seconds)
         ]_vars

\* the same alarm without id was saved twice into an empty store, and the
\* listing that followed holds both rows, under the ids 1 and 2
C11_Witness ==
    /\ nCalls = 3 /\ call.op = "all" /\ call.fault = "none"
    /\ held = Alarm(None, 255, 13, 42, 22)
    /\ IsOk(call.result)
    /\ call.result.val = <<Alarm(Some(1), 255, 13, 42, 22),
                           Alarm(Some(2), 255, 13, 42, 22)>>

\* the last call carried a set id that exists in the table
OnStoredId ==
    /\ call.op \in {"save", "remove"} /\ call.alarm.id # None
    /\ call.alarm.id[1] \in ids(call.before.rows)

\* C12: a store operation carrying a set id k that exists in the table
\* affects only row k: upsert replaces exactly that row's four data fields
\* (row count and the row's id unchanged, the next list_all reflects the new
\* values) and remove deletes exactly that row; every other row is left
\* unchanged by either operation.
C12_SetIdTouchesOnlyItsRow ==
    /\ [](OnStoredId =>
            LET before == call.before.rows
                after  == conn.rows
                k      == call.alarm.id[1]
            IN  IF ~IsOk(call.result) THEN after = before
                ELSE IF call.op = "save"
                THEN /\ Len(after) = Len(before)
                     /\ \A i \in 1..Len(before) :
                           IF before[i].id = k
                           THEN after[i].id = k /\ HoldsFields(after[i], call.alarm)
                           ELSE after[i] = before[i]
                ELSE /\ Len(after) = Len(before) - 1
                     /\ k \notin ids(after)
                     /\ \A i \in 1..Len(before) :
                           before[i].id # k =>
                               \E j \in 1..Len(after) : after[j] = before[i])
    /\ [][(/\ OnStoredId /\ call.op = "save" /\ IsOk(call.result)
           /\ Calls("all") /\ call'.fault = "none") =>
              /\ IsOk(call'.result)
              /\ \E i \in 1..Len(call'.result.val) :
                    call'.result.val[i] = call.alarm
         ]_vars

\* row 5 of a two-row table was given new field values, and then row 2 was
\* removed: row 5 is what is left, with the values of the update
C12_Witness ==
    /\ call.op = "remove" /\ call.alarm.id = Some(2) /\ IsOk(call.result)
    /\ call.before.rows = <<Row(2, 1, 7, 30, 0), Row(5, 255, 13, 42, 22)>>
    /\ conn.rows = <<Row(5, 255, 13, 42, 22)>>

\* C13: upsert or remove called with a set id that matches no row returns
\* success and leaves the table unchanged: no row is inserted, modified or
\* deleted.
C13_UnknownIdIsNoOp ==
    (/\ call.op \in {"save", "remove"} /\ call.alarm.id # None
     /\ call.alarm.id[1] \notin ids(call.before.rows)
     /\ call.fault = "none") =>
        /\ IsOk(call.result)
        /\ conn.rows = call.before.rows

\* an alarm with id 9 was saved into a table whose rows have the ids 2 and 5
C13_Witness ==
    /\ call.op = "save" /\ call.alarm.id = Some(9) /\ IsOk(call.result)
    /\ ids(call.before.rows) = {2, 5}
    /\ conn.rows = call.before.rows

C20_StorageFailureIsReturned ==
    (call.op # "none" /\ call.fault # "none") => IsErr(call.result)

\* hour, minute and seconds of a form a time of day
InRange(a) == a.hour <= 23 /\ a.minute <= 59 /\ a.seconds <= 59

\* C26: every alarm held in the store or handed out by it satisfies
\* hour <= 23, minute <= 59 and seconds <= 59: no sequence of save and all
\* persists or yields an alarm outside these ranges.
C26_FieldsInRange ==
    /\ \A i \in 1..Len(conn.rows) : InRange(conn.rows[i])
    /\ (call.op = "all" /\ IsOk(call.result)) =>
          \A i \in 1..Len(call.result.val) : InRange(call.result.val[i])

\* C28: generated ids are never reused: after any sequence of save and
\* remove, an insert never assigns an id that an earlier, since-removed row
\* had.
C28_IdsNeverReused ==
    (call.op = "save" /\ call.alarm.id = None /\ IsOk(call.result)) =>
        (ids(conn.rows) \ ids(call.before.rows)) \cap removed = {}

---------------------------------------------------------------------------
(* The conversions applied one after the other: Alarm::as_bytes and        *)
(* Alarm::from, ActiveDays' Serialize and Deserialize, and                 *)
(* ClockMessage::as_bytes and ClockMessage::try_from.  SpecConv.           *)

\* the length up to which every list of tokens is tried
MaxListLen == 2

DayNames ==
    <<"Monday", "Tuesday", "Wednesday", "Thursday", "Friday", "Saturday",
      "Sunday">>

\* what a JSON array of strings may hold: the names of the days and others
Tokens == {DayNames[k] : k \in 1..7} \cup {"Funday", "monday"}

RECURSIVE Repeat(_, _)
Repeat(x, n) == IF n = 0 THEN <<>> ELSE <<x>> \o Repeat(x, n - 1)

\* lists of tokens: all the short ones, the week in both orders, and lists
\* of eight, nine and ten elements
NameLists ==
    UNION {[1..n -> Tokens] : n \in 0..MaxListLen}
    \cup {DayNames,
          <<"Sunday", "Saturday", "Friday", "Thursday", "Wednesday", "Tuesday",
            "Monday">>,
          <<"Funday">> \o DayNames,
          DayNames \o <<"Monday">>,
          DayNames \o <<"Funday", "Funday">>,
          Repeat("Tuesday", 8) \o <<"Monday">>,
          Repeat("Funday", 8) \o <<"Monday">>,
          Repeat("Funday", 8) \o <<"Sunday", "Monday">>}

ConvAlarms ==
    {Alarm(id, d, h, 12, sec) :
        id \in {None, Some(1), Some(7)}, d \in {0, 2, 127, 255},
        h \in {0, 13, 255}, sec \in {9, 59}}

\* clock payloads whose angles are not those of their hours, minutes and
\* seconds, one of them with a byte behind the fifteenth
ConvClockBytes ==
    LET noon == ClockMessage_as_bytes(ClockMessage_default(Instant(0, 11, 59, 59)))
    IN  {<<0, 0, 0>> \o SubSeq(noon, 4, 15),
         <<0, 0, 0>> \o SubSeq(noon, 4, 15) \o <<9>>,
         <<0, 0, 0, 0, 0, 0, 0, 64, 73, 15, 219, 63, 201, 15, 219>>}

InitConv ==
    /\ cvMid = NoResult /\ cvOut = NoResult
    /\ \/ cvKind = "alarm" /\ cvIn \in ConvAlarms
       \/ cvKind = "days" /\ cvIn \in 0..255
       \/ cvKind = "names" /\ cvIn \in NameLists
       \/ cvKind = "clock" /\ cvIn \in CodecClocks
       \/ cvKind = "bytes" /\ cvIn \in ConvClockBytes
    /\ EvalIdle /\ CodecIdle /\ PubIdle /\ LisIdle /\ StoreIdle
    /\ NetIdle /\ AppIdle /\ SchemaIdle

\* alarm.as_bytes()
AlarmToBytes ==
    /\ cvKind = "alarm" /\ cvMid.tag = "None"
    /\ cvMid' = Ok(Alarm_as_bytes(cvIn))
    /\ UNCHANGED <<cvKind, cvIn, cvOut, evalVars, codecVars, pubVars, lisVars,
                   storeVars,
                   netVars, appVars, schemaVars>>

\* Alarm::from(bytes)
AlarmFromBytes ==
    /\ cvKind = "alarm" /\ IsOk(cvMid) /\ cvOut.tag = "None"
    /\ cvOut' = Alarm_from(cvMid.val)
    /\ UNCHANGED <<cvKind, cvIn, cvMid, evalVars, codecVars, pubVars, lisVars,
                   storeVars,
                   netVars, appVars, schemaVars>>

\* ActiveDays serialized: of a mask, or of the mask a list deserialized to
SerializeDays ==
    /\ \/ /\ cvKind = "days" /\ cvMid.tag = "None"
          /\ cvMid' = Ok(to_day_strings_vec(cvIn))
          /\ UNCHANGED cvOut
       \/ /\ cvKind = "names" /\ IsOk(cvMid) /\ cvOut.tag = "None"
          /\ cvOut' = Ok(to_day_strings_vec(cvMid.val))
          /\ UNCHANGED cvMid
    /\ UNCHANGED <<cvKind, cvIn, evalVars, codecVars, pubVars, lisVars,
                   storeVars,
                   netVars, appVars, schemaVars>>

\* ActiveDays deserialized: from a list of tokens, or from the list a mask
\* serialized to
DeserializeDays ==
    /\ \/ /\ cvKind = "names" /\ cvMid.tag = "None"
          /\ cvMid' \in ActiveDays_deserialize(cvIn)
          /\ UNCHANGED cvOut
       \/ /\ cvKind = "days" /\ IsOk(cvMid) /\ cvOut.tag = "None"
          /\ cvOut' \in ActiveDays_deserialize(cvMid.val)
          /\ UNCHANGED cvMid
    /\ UNCHANGED <<cvKind, cvIn, evalVars, codecVars, pubVars, lisVars,
                   storeVars,
                   netVars, appVars, schemaVars>>

\* message.as_bytes(): of a clock, or of the clock a vector converted to
ClockToBytes ==
    /\ \/ /\ cvKind = "clock" /\ cvMid.tag = "None"
          /\ cvMid' = Ok(ClockMessage_as_bytes(cvIn))
          /\ UNCHANGED cvOut
       \/ /\ cvKind = "bytes" /\ IsOk(cvMid) /\ cvOut.tag = "None"
          /\ cvOut' = Ok(ClockMessage_as_bytes(cvMid.val))
          /\ UNCHANGED cvMid
    /\ UNCHANGED <<cvKind, cvIn, evalVars, codecVars, pubVars, lisVars,
                   storeVars,
                   netVars, appVars, schemaVars>>

\* ClockMessage::try_from(bytes): of a vector, or of the bytes of a clock
ClockFromBytes ==
    /\ \/ /\ cvKind = "bytes" /\ cvMid.tag = "None"
          /\ cvMid' = ClockMessage_try_from(cvIn)
          /\ UNCHANGED cvOut
       \/ /\ cvKind = "clock" /\ IsOk(cvMid) /\ cvOut.tag = "None"
          /\ cvOut' = ClockMessage_try_from(cvMid.val)
          /\ UNCHANGED cvMid
    /\ UNCHANGED <<cvKind, cvIn, evalVars, codecVars, pubVars, lisVars,
                   storeVars,
                   netVars, appVars, schemaVars>>

NextConv ==
    \/ AlarmToBytes \/ AlarmFromBytes
    \/ SerializeDays \/ DeserializeDays
    \/ ClockToBytes \/ ClockFromBytes
SpecConv == InitConv /\ [][NextConv]_vars

\* C16: for every alarm a (whatever its id), decoding the bytes produced by
\* a's wire encoding yields an alarm with the same active_days, hour, minute
\* and seconds and with id = none.
C16_AlarmWireRoundTrip ==
    (cvKind = "alarm" /\ cvOut.tag # "None") =>
        /\ IsOk(cvOut)
        /\ cvOut.val.id = None
        /\ cvOut.val.active_days = cvIn.active_days
        /\ cvOut.val.hour = cvIn.hour
        /\ cvOut.val.minute = cvIn.minute
        /\ cvOut.val.seconds = cvIn.seconds

\* the alarm of test_binary_conversion, here with the id 7, has come back
\* from its bytes without the id
C16_Witness ==
    /\ cvKind = "alarm" /\ cvIn = Alarm(Some(7), 2, 13, 12, 9)
    /\ cvMid = Ok(<<255, 2, 13, 12, 9>>)
    /\ cvOut = Ok(Alarm(None, 2, 13, 12, 9))

\* bit k - 1 of mask x
BitSet(x, k) == (x \div (2 ^ (k - 1))) % 2 = 1

\* the place of a name in the week, 0 for a token that is no day's name
DayIndex(e) == IF \E k \in 1..7 : DayNames[k] = e
               THEN CHOOSE k \in 1..7 : DayNames[k] = e
               ELSE 0

\* C17: for every mask x in 0..0x7F, encoding x to its weekday-name list
\* gives names only for set bits, in Monday-to-Sunday order with bit0 =
\* Monday and bit6 = Sunday, and decoding that list yields x again.
C17_ActiveDaysRoundTrip ==
    (cvKind = "days" /\ cvIn <= 127 /\ cvMid.tag # "None") =>
        /\ IsOk(cvMid)
        /\ \A k \in 1..7 :
              BitSet(cvIn, k) <=> \E i \in 1..Len(cvMid.val) : cvMid.val[i] = DayNames[k]
        /\ \A i \in 1..Len(cvMid.val) : DayIndex(cvMid.val[i]) > 0
        /\ \A i, j \in 1..Len(cvMid.val) :
              i < j => DayIndex(cvMid.val[i]) < DayIndex(cvMid.val[j])
        /\ cvOut.tag # "None" => cvOut = Ok(cvIn)

\* the mask of Monday, Wednesday and Sunday has made the round trip
C17_Witness ==
    /\ cvKind = "days" /\ cvIn = 69
    /\ cvMid = Ok(<<"Monday", "Wednesday", "Sunday">>)
    /\ cvOut = Ok(69)

\* the OR of the bits of the recognised names in a list, each bit once
BitsOf(seq) ==
    LET present == {k \in 1..7 : \E i \in 1..Len(seq) : seq[i] = DayNames[k]}
        RECURSIVE Sum(_)
        Sum(S) == IF S = {} THEN 0
                  ELSE LET k == CHOOSE x \in S : TRUE
                       IN  2 ^ (k - 1) + Sum(S \ {k})
    IN  Sum(present)

\* C18: decoding a weekday-name list yields the bitwise OR of the bits of
\* all recognised names present in the list, whatever the order of the
\* names, however often a name is repeated, however many unknown tokens are
\* mixed in and however long the list is; unknown tokens contribute no bit
\* and cause no error.
C18_DecodeIsOrOfNames ==
    (cvKind = "names" /\ cvMid.tag # "None") =>
        /\ IsOk(cvMid)
        /\ cvMid.val = BitsOf(cvIn)

\* C19: for every ClockMessage built from a local time, its encoding is
\* exactly 15 bytes laid out as hours, minutes, seconds, hour angle (4),
\* minute angle (4), second angle (4), and decoding those bytes returns an
\* equal struct; the angle fields of a decoded struct are taken from the
\* bytes and not recomputed from hours, minutes and seconds.
C19_ClockRoundTrip ==
    LET be(b, i) == b[i] * 16777216 + b[i + 1] * 65536 + b[i + 2] * 256 + b[i + 3]
    IN  /\ (cvKind = "clock" /\ cvMid.tag # "None") =>
              /\ IsOk(cvMid) /\ Len(cvMid.val) = 15
              /\ cvMid.val[1] = cvIn.hours /\ cvMid.val[2] = cvIn.minutes
              /\ cvMid.val[3] = cvIn.seconds
              /\ be(cvMid.val, 4) = cvIn.hours_angle
              /\ be(cvMid.val, 8) = cvIn.minutes_angle
              /\ be(cvMid.val, 12) = cvIn.seconds_angle
              /\ cvOut.tag # "None" =>
                    /\ IsOk(cvOut)
                    /\ ClockMessage_eq(cvOut.val, cvIn)
        /\ (cvKind = "bytes" /\ cvMid.tag # "None") =>
              /\ IsOk(cvMid)
              /\ cvMid.val.hours_angle = be(cvIn, 4)
              /\ cvMid.val.minutes_angle = be(cvIn, 8)
              /\ cvMid.val.seconds_angle = be(cvIn, 12)

\* the clock of Monday 11:59:59 has come back equal from its 15 bytes
C19_Witness ==
    /\ cvKind = "clock" /\ cvIn = ClockMessage_default(Instant(0, 11, 59, 59))
    /\ IsOk(cvMid) /\ Len(cvMid.val) = 15
    /\ IsOk(cvOut) /\ ClockMessage_eq(cvOut.val, cvIn)

\* bit7 of a byte
Bit7(x) == (x \div 128) % 2

---------------------------------------------------------------------------
(* The desktop app's store commands: clockrobustus-app/src-tauri/src/      *)
(* alarms.rs.  SpecApp.  get_alarms, upsert_alarm and delete_alarm are     *)
(* called on threads; each goes through db_accessor: db_check_init, the    *)
(* clone of the Arc in CONN, read() on its RwLock, the callback on the     *)
(* connection, and the drop of the guard.  Every connection is opened on   *)
(* the one database file, conn.                                            *)

\* threads that call a store command, one command each
NThreads == 2

Threads == 1..NThreads

\* an RwLock nobody holds
Unlocked == [readers |-> {}, writer |-> None]

\* a lock taken in read mode for the reads and in write mode for the writes
lock_mode_by_op(op) == IF op = "get_alarms" THEN "read" ELSE "write"

\* the mode in which db_accessor takes the lock for a command: arcc.read()
lock_mode(op) == "read"

\* RwLock: read() returns while no writer holds the lock, write() while
\* nobody holds it
can_lock(l, mode) ==
    IF mode = "read" THEN l.writer = None
    ELSE l.writer = None /\ l.readers = {}

\* the lock l with thread t holding it in mode
locked(l, t, mode) ==
    IF mode = "read" THEN [l EXCEPT !.readers = @ \cup {t}]
    ELSE [l EXCEPT !.writer = Some(t)]

\* the guard of thread t dropped
unlocked(l, t) ==
    [readers |-> l.readers \ {t},
     writer  |-> IF l.writer = Some(t) THEN None ELSE l.writer]

\* the database file at the start of the app
AppDatabases ==
    {Database(FALSE, <<>>), Database(TRUE, <<Row(1, 127, 12, 0, 0)>>)}

\* the commands the GUI invokes, with their argument
AppCommands ==
    {[op |-> "get_alarms", alarm |-> Alarm(None, 0, 0, 0, 0)]} \cup
    {[op |-> op, alarm |-> a] :
        op \in {"upsert_alarm", "delete_alarm"},
        a \in {Alarm(None, 127, 12, 0, 0), Alarm(Some(1), 255, 13, 42, 22)}}

NoCommand == [op |-> "none", alarm |-> Alarm(None, 0, 0, 0, 0)]

\* the callback of a command on the connection: Alarm::all(conn),
\* alarm.save(conn), alarm.remove(conn)
callback(cmd, c) ==
    CASE cmd.op = "get_alarms"   -> Alarm_all_in(c, "none", Len(c.rows))
      [] cmd.op = "upsert_alarm" -> Alarm_save(cmd.alarm, c, "none")
      [] cmd.op = "delete_alarm" -> Alarm_remove(cmd.alarm, c, "none")

InitApp ==
    /\ CONN = None /\ opened = 0 /\ lock = <<>>
    /\ tpc = [t \in Threads |-> "idle"]
    /\ top = [t \in Threads |-> NoCommand]
    /\ tconn = [t \in Threads |-> 0]
    /\ conn \in AppDatabases
    /\ held = Alarm(None, 0, 0, 0, 0)
    /\ call = [op |-> "none", alarm |-> Alarm(None, 0, 0, 0, 0),
               before |-> [exists |-> FALSE, rows |-> <<>>],
               fault |-> "none", result |-> NoResult]
    /\ nCalls = 0 /\ removed = {}
    /\ EvalIdle /\ CodecIdle /\ PubIdle /\ LisIdle /\ ConvIdle /\ NetIdle
    /\ SchemaIdle

\* the GUI invokes a command and a thread enters db_accessor
Invoke(t) ==
    /\ tpc[t] = "idle"
    /\ \E cmd \in AppCommands : top' = [top EXCEPT ![t] = cmd]
    /\ tpc' = [tpc EXCEPT ![t] = "init"]
    /\ UNCHANGED <<CONN, opened, lock, tconn, evalVars, codecVars, pubVars,
                   lisVars, storeVars, convVars, netVars, schemaVars>>

\* db_check_init: if CONN.is_none(), read without any synchronisation
CheckInit(t) ==
    /\ tpc[t] = "init"
    /\ tpc' = [tpc EXCEPT ![t] = IF CONN = None THEN "open" ELSE "deref"]
    /\ UNCHANGED <<CONN, opened, lock, top, tconn, evalVars, codecVars,
                   pubVars, lisVars, storeVars, convVars, netVars, schemaVars>>

\* db_check_init: CONN = Some(Arc::new(RwLock::new(Connection::open(..))))
OpenConn(t) ==
    /\ tpc[t] = "open"
    /\ opened' = opened + 1
    /\ lock' = Append(lock, Unlocked)
    /\ CONN' = Some(opened + 1)
    /\ tpc' = [tpc EXCEPT ![t] = "deref"]
    /\ UNCHANGED <<top, tconn, evalVars, codecVars, pubVars, lisVars,
                   storeVars, convVars, netVars, schemaVars>>

\* db_accessor: if let Some(arconn) = &CONN, arconn.clone()
CloneArc(t) ==
    /\ tpc[t] = "deref"
    /\ IF CONN = None
       THEN /\ tpc' = [tpc EXCEPT ![t] = "done"]
            /\ UNCHANGED tconn
       ELSE /\ tconn' = [tconn EXCEPT ![t] = CONN[1]]
            /\ tpc' = [tpc EXCEPT ![t] = "lock"]
    /\ UNCHANGED <<CONN, opened, lock, top, evalVars, codecVars, pubVars,
                   lisVars, storeVars, convVars, netVars, schemaVars>>

\* db_accessor: arcc.read(), which returns once the lock can be taken
Acquire(t) ==
    /\ tpc[t] = "lock"
    /\ can_lock(lock[tconn[t]], lock_mode(top[t].op))
    /\ lock' = [lock EXCEPT ![tconn[t]] = locked(@, t, lock_mode(top[t].op))]
    /\ tpc' = [tpc EXCEPT ![t] = "callback"]
    /\ UNCHANGED <<CONN, opened, top, tconn, evalVars, codecVars, pubVars,
                   lisVars, storeVars, convVars, netVars, schemaVars>>

\* db_accessor: callback(&conn) under the guard; the command's expect
\* panics on Err, and the unwinding drops the guard
Callback(t) ==
    /\ tpc[t] = "callback"
    /\ LET o == callback(top[t], conn)
       IN  /\ conn' = o.conn
           /\ IF IsOk(o.result)
              THEN /\ tpc' = [tpc EXCEPT ![t] = "unlock"]
                   /\ UNCHANGED lock
              ELSE /\ tpc' = [tpc EXCEPT ![t] = "panicked"]
                   /\ lock' = [lock EXCEPT ![tconn[t]] = unlocked(@, t)]
    /\ UNCHANGED <<CONN, opened, top, tconn, held, call, nCalls, removed,
                   evalVars, codecVars, pubVars, lisVars, convVars, netVars, schemaVars>>

\* db_accessor returns: the guard and the clone of the Arc are dropped
Release(t) ==
    /\ tpc[t] = "unlock"
    /\ lock' = [lock EXCEPT ![tconn[t]] = unlocked(@, t)]
    /\ tpc' = [tpc EXCEPT ![t] = "done"]
    /\ UNCHANGED <<CONN, opened, top, tconn, evalVars, codecVars, pubVars,
                   lisVars, storeVars, convVars, netVars, schemaVars>>

NextApp ==
    \E t \in Threads :
        \/ Invoke(t) \/ CheckInit(t) \/ OpenConn(t) \/ CloneArc(t)
        \/ Acquire(t) \/ Callback(t) \/ Release(t)
SpecApp == InitApp /\ [][NextApp]_vars

\* thread t is inside the locked section: it holds a guard
InSection(t) == tpc[t] \in {"callback", "unlock"}

\* a command that writes to the store
Writes(t) == top[t].op \in {"upsert_alarm", "delete_alarm"}

\* C21: every store operation issued through the shared storage handle,
\* writes included, acquires only the read-mode lock: no lock ever has a
\* writer, every thread in the locked section is one of its lock's readers,
\* and a thread that has come to the lock is never made to wait, whichever
\* commands are inside.  (That two writes are inside the locked section of
\* one connection at the same time is C21_Witness.)
C21_OnlyReadLocks ==
    /\ \A k \in 1..opened : lock[k].writer = None
    /\ \A t \in Threads :
          /\ InSection(t) => t \in lock[tconn[t]].readers
          /\ tpc[t] = "lock" =>
                can_lock(lock[tconn[t]], lock_mode(top[t].op))

\* an upsert and a delete, or two upserts, hold the lock of the same
\* connection at the same time
C21_Witness ==
    \E t, u \in Threads :
        /\ t # u /\ InSection(t) /\ InSection(u)
        /\ Writes(t) /\ Writes(u)
        /\ tconn[t] = tconn[u]
        /\ {t, u} \subseteq lock[tconn[t]].readers

\* C30: under any interleaving of concurrent first calls to the store
\* commands, the process-wide storage handle is initialised exactly once
\* and every caller operates on that same connection.
C30_InitialisedOnce ==
    /\ opened <= 1
    /\ \A t, u \in Threads :
          (tconn[t] # 0 /\ tconn[u] # 0) => tconn[t] = tconn[u]
---------------------------------------------------------------------------
(* Two store operations over separate connections to one database file:    *)
(* the daemon's Alarm::all of a tick and a store command of the app.       *)
(* SpecSchema.  Alarm::check_table is two statements, the SELECT on        *)
(* sqlite_master and, when it counted no row, the CREATE TABLE; sqlite     *)
(* runs each statement atomically and the statements of the two            *)
(* connections in any order.                                               *)

Procs == {"daemon", "app"}

\* what each process calls: tick calls Alarm::all, the app's commands call
\* Alarm::all, alarm.save and alarm.remove
SchemaOps(p) ==
    IF p = "daemon"
    THEN {[op |-> "get_alarms", alarm |-> Alarm(None, 0, 0, 0, 0)]}
    ELSE AppCommands

InitSchema ==
    /\ spc = [p \in Procs |-> "idle"]
    /\ sop = [p \in Procs |-> NoCommand]
    /\ sres = [p \in Procs |-> NoResult]
    /\ conn \in AppDatabases
    /\ held = Alarm(None, 0, 0, 0, 0)
    /\ call = [op |-> "none", alarm |-> Alarm(None, 0, 0, 0, 0),
               before |-> [exists |-> FALSE, rows |-> <<>>],
               fault |-> "none", result |-> NoResult]
    /\ nCalls = 0 /\ removed = {}
    /\ EvalIdle /\ CodecIdle /\ PubIdle /\ LisIdle /\ ConvIdle /\ NetIdle
    /\ AppIdle

\* the process enters a store operation, whose first call is check_table
StartOp(p) ==
    /\ spc[p] = "idle"
    /\ \E cmd \in SchemaOps(p) : sop' = [sop EXCEPT ![p] = cmd]
    /\ spc' = [spc EXCEPT ![p] = "select"]
    /\ UNCHANGED <<sres, evalVars, codecVars, pubVars, lisVars, storeVars,
                   convVars, netVars, appVars>>

\* conn.execute("CREATE TABLE alarms (...)"): an error when the database
\* has a table of that name
create_table(c) ==
    IF c.exists THEN Outcome(Err("Database Error"), c)
    ELSE Outcome(Ok("unit"), Database(TRUE, c.rows))

\* check_table: the SELECT on sqlite_master and the test count() == 0
SelectMaster(p) ==
    /\ spc[p] = "select"
    /\ spc' = [spc EXCEPT ![p] = IF conn.exists THEN "body" ELSE "create"]
    /\ UNCHANGED <<sop, sres, evalVars, codecVars, pubVars, lisVars,
                   storeVars, convVars, netVars, appVars>>

\* check_table: conn.execute(CREATE TABLE)?, whose error ends the operation
CreateTable(p) ==
    /\ spc[p] = "create"
    /\ LET o == create_table(conn)
       IN  /\ conn' = o.conn
           /\ IF IsOk(o.result)
              THEN spc' = [spc EXCEPT ![p] = "body"] /\ UNCHANGED sres
              ELSE /\ spc' = [spc EXCEPT ![p] = "done"]
                   /\ sres' = [sres EXCEPT ![p] = o.result]
    /\ UNCHANGED <<sop, held, call, nCalls, removed, evalVars, codecVars,
                   pubVars, lisVars, convVars, netVars, appVars>>

\* the statements of the operation behind check_table, the table existing
Body(p) ==
    /\ spc[p] = "body"
    /\ LET o == callback(sop[p], conn)
       IN  /\ conn' = o.conn
           /\ sres' = [sres EXCEPT ![p] = o.result]
    /\ spc' = [spc EXCEPT ![p] = "done"]
    /\ UNCHANGED <<sop, held, call, nCalls, removed, evalVars, codecVars,
                   pubVars, lisVars, convVars, netVars, appVars>>

NextSchema ==
    \E p \in Procs : StartOp(p) \/ SelectMaster(p) \/ CreateTable(p) \/ Body(p)
SpecSchema == InitSchema /\ [][NextSchema]_vars

\* C31: for any interleaving of two store operations issued over separate
\* connections against a store where the alarms table does not exist yet,
\* no operation fails in check_table: the check-then-create step never
\* makes one of them fail because the other created the table in between.
C31_SchemaRaceFree ==
    \A p \in Procs : sres[p] # Err("Database Error")
==========================================================================
